---------------------------- MODULE Spec2Model ----------------------------
(*************************************************************************)
(* A model of fcl's Transform3f (transform.h): a quaternion q, a         *)
(* translation T and a lazily materialised rotation-matrix cache         *)
(* (matrix_set, R); and of the free functions of math/geometry.h:        *)
(* generateCoordinateSystem (both variants) and relativeTransform.       *)
(*                                                                       *)
(* Arithmetic is exact.  Vec3f is a triple of integers, Matrix3f a       *)
(* triple of rows.  A Quaternion3f is a 4-tuple <<w,x,y,z>> holding      *)
(* TWICE the value of data[0..3], so that the 24 unit quaternions with   *)
(* half-integer coordinates (the Hurwitz units) are integer tuples; the  *)
(* operators below divide accordingly.  The geometry functions take      *)
(* square roots of non-integers and are modelled over exact rationals.   *)
(*************************************************************************)
EXTENDS Integers, Sequences, FiniteSets, TLC

\* Largest magnitude of a coordinate of a translation / test vector.
MaxT == 1

----------------------------------------------------------------------------
(* Vec3f and Matrix3f: the external fixed-size primitives.               *)

Abs(n) == IF n < 0 THEN -n ELSE n

ZeroVec == <<0, 0, 0>>

VecAdd(a, b) == <<a[1] + b[1], a[2] + b[2], a[3] + b[3]>>

VecSub(a, b) == <<a[1] - b[1], a[2] - b[2], a[3] - b[3]>>

VecNeg(a) == <<-a[1], -a[2], -a[3]>>

Cross(a, b) ==
  << a[2] * b[3] - a[3] * b[2],
     a[3] * b[1] - a[1] * b[3],
     a[1] * b[2] - a[2] * b[1] >>

IdentityMatrix == << <<1, 0, 0>>, <<0, 1, 0>>, <<0, 0, 1>> >>

\* What Matrix3f's default constructor leaves in R; it is never read
\* while matrix_set is false.
DefaultMatrix == << <<0, 0, 0>>, <<0, 0, 0>>, <<0, 0, 0>> >>

Transpose(M) ==
  << <<M[1][1], M[2][1], M[3][1]>>,
     <<M[1][2], M[2][2], M[3][2]>>,
     <<M[1][3], M[2][3], M[3][3]>> >>

MatVec(M, x) ==
  << M[1][1] * x[1] + M[1][2] * x[2] + M[1][3] * x[3],
     M[2][1] * x[1] + M[2][2] * x[2] + M[2][3] * x[3],
     M[3][1] * x[1] + M[3][2] * x[2] + M[3][3] * x[3] >>

MatRow(A, B, i) ==
  << A[i][1] * B[1][1] + A[i][2] * B[2][1] + A[i][3] * B[3][1],
     A[i][1] * B[1][2] + A[i][2] * B[2][2] + A[i][3] * B[3][2],
     A[i][1] * B[1][3] + A[i][2] * B[2][3] + A[i][3] * B[3][3] >>

MatMul(A, B) == << MatRow(A, B, 1), MatRow(A, B, 2), MatRow(A, B, 3) >>

Det(M) ==
    M[1][1] * (M[2][2] * M[3][3] - M[2][3] * M[3][2])
  - M[1][2] * (M[2][1] * M[3][3] - M[2][3] * M[3][1])
  + M[1][3] * (M[2][1] * M[3][2] - M[2][2] * M[3][1])

\* The integer square root (exact on the perfect squares the model meets).
ISqrt(n) == CHOOSE r \in 0..n : r * r <= n /\ (r + 1) * (r + 1) > n

\* Translations: at most one non-zero coordinate.
Vecs ==
  { a \in { <<x, y, z>> : x \in -MaxT..MaxT, y \in -MaxT..MaxT,
                           z \in -MaxT..MaxT } :
      Cardinality({i \in 1..3 : a[i] # 0}) <= 1 }

\* Points to transform: the origin, the basis vectors and their sums.
Points == { <<x, y, z>> : x \in 0..MaxT, y \in 0..MaxT, z \in 0..MaxT }

\* The translations callers pass to the instance under test.
VecArgs == { <<k, 0, 0>> : k \in 0..MaxT }

\* The matrix that sends the basis vector e_j to sg[j] * e_(j+s).
ShiftEntry(s, sg, i, j) == IF i = ((j - 1 + s) % 3) + 1 THEN sg[j] ELSE 0

ShiftRow(s, sg, i) ==
  << ShiftEntry(s, sg, i, 1), ShiftEntry(s, sg, i, 2),
     ShiftEntry(s, sg, i, 3) >>

SignedShift(s, sg) ==
  << ShiftRow(s, sg, 1), ShiftRow(s, sg, 2), ShiftRow(s, sg, 3) >>

\* Proper rotation matrices with integer entries whose quaternion has
\* half-integer coordinates: the 12 rotations of the tetrahedral group.
Rots ==
  { M \in { SignedShift(s, sg) : s \in 0..2, sg \in [1..3 -> {-1, 1}] } :
      Det(M) = 1 }

\* Unit quaternions with half-integer coordinates (stored doubled).
Quats ==
  { p \in { <<a, b, c, d>> : a \in -2..2, b \in -2..2, c \in -2..2,
                             d \in -2..2 } :
      p[1] * p[1] + p[2] * p[2] + p[3] * p[3] + p[4] * p[4] = 4 }

\* The quaternions callers pass to the instance under test: 1, i, j,
\* k, -k and (1 + i + j +- k)/2, which generate all of Quats.
QuatArgs == { p \in Quats : p[1] >= 0 /\ p[2] >= 0 /\ p[3] >= 0 }

----------------------------------------------------------------------------
(* Quaternion3f.  Constructors are in transform.h; the other members are *)
(* only declared there and follow the design document, section 4.2.      *)

\* Quaternion3f(): the identity rotation (1, 0, 0, 0).
QuatIdentity == <<2, 0, 0, 0>>

\* conj(): negate the vector part.
QuatConj(p) == <<p[1], -p[2], -p[3], -p[4]>>

\* operator*: the Hamilton product.
QuatMul(a, b) ==
  << (a[1] * b[1] - a[2] * b[2] - a[3] * b[3] - a[4] * b[4]) \div 2,
     (a[1] * b[2] + a[2] * b[1] + a[3] * b[4] - a[4] * b[3]) \div 2,
     (a[1] * b[3] - a[2] * b[4] + a[3] * b[1] + a[4] * b[2]) \div 2,
     (a[1] * b[4] + a[2] * b[3] - a[3] * b[2] + a[4] * b[1]) \div 2 >>

\* transform(v): the closed form of the sandwich product q (0,v) conj(q),
\* v + 2w (u x v) + 2 u x (u x v) with u the vector part.
QuatTransform(p, v) ==
  LET u   == <<p[2], p[3], p[4]>>
      uv  == Cross(u, v)
      uuv == Cross(u, uv)
  IN  << v[1] + (p[1] * uv[1] + uuv[1]) \div 2,
         v[2] + (p[1] * uv[2] + uuv[2]) \div 2,
         v[3] + (p[1] * uv[3] + uuv[3]) \div 2 >>

\* toRotation(R): quaternion to matrix.
toRotation(p) ==
  LET w == p[1]  x == p[2]  y == p[3]  z == p[4]
  IN  << << 1 - (y * y + z * z) \div 2, (x * y - w * z) \div 2,
            (x * z + w * y) \div 2 >>,
         << (x * y + w * z) \div 2, 1 - (x * x + z * z) \div 2,
            (y * z - w * x) \div 2 >>,
         << (x * z - w * y) \div 2, (y * z + w * x) \div 2,
            1 - (x * x + y * y) \div 2 >> >>

\* fromRotation(R): matrix to quaternion, branching on the sign of the
\* trace so that the divisor is never small.
fromRotation(M) ==
  LET trace == M[1][1] + M[2][2] + M[3][3]
  IN  IF trace > 0
      THEN LET root == ISqrt(trace + 1)
           IN  << root,
                  (M[3][2] - M[2][3]) \div root,
                  (M[1][3] - M[3][1]) \div root,
                  (M[2][1] - M[1][2]) \div root >>
      ELSE LET i0   == IF M[2][2] > M[1][1] THEN 2 ELSE 1
               i    == IF M[3][3] > M[i0][i0] THEN 3 ELSE i0
               j    == (i % 3) + 1
               k    == (j % 3) + 1
               root == ISqrt(M[i][i] - M[j][j] - M[k][k] + 1)
               part == [n \in 1..3 |->
                          IF n = i THEN root
                          ELSE (M[n][i] + M[i][n]) \div root]
           IN  << (M[k][j] - M[j][k]) \div root,
                  part[1], part[2], part[3] >>

----------------------------------------------------------------------------
(* Transform3f: the record of its four members, and one operator per     *)
(* member function giving the object after the call.                     *)

\* Transform3f(): setIdentity() on the fresh object.
setIdentity(tf) ==
  [matrix_set |-> TRUE, R |-> IdentityMatrix, T |-> ZeroVec,
   q |-> QuatIdentity]

\* The members before a constructor body runs.
RawTransform ==
  [matrix_set |-> FALSE, R |-> DefaultMatrix, T |-> ZeroVec,
   q |-> QuatIdentity]

CtorDefault == setIdentity(RawTransform)

\* Transform3f(const Matrix3f& R_, const Vec3f& T_)
CtorRT(R_, T_) ==
  [matrix_set |-> TRUE, R |-> R_, T |-> T_, q |-> fromRotation(R_)]

\* Transform3f(const Quaternion3f& q_, const Vec3f& T_)
CtorQT(q_, T_) ==
  [matrix_set |-> FALSE, R |-> DefaultMatrix, T |-> T_, q |-> q_]

\* Transform3f(const Matrix3f& R_)
CtorR(R_) ==
  [matrix_set |-> TRUE, R |-> R_, T |-> ZeroVec, q |-> fromRotation(R_)]

\* Transform3f(const Quaternion3f& q_)
CtorQ(q_) ==
  [matrix_set |-> FALSE, R |-> DefaultMatrix, T |-> ZeroVec, q |-> q_]

\* Transform3f(const Vec3f& T_)
CtorT(T_) ==
  [matrix_set |-> TRUE, R |-> IdentityMatrix, T |-> T_,
   q |-> QuatIdentity]

\* getRotation() that returns R without looking at matrix_set.
getRotation_SkipsFlag(tf) ==
  IF ~tf.matrix_set THEN [tf EXCEPT !.R = toRotation(tf.q)] ELSE tf

\* getRotation(): the object after the call; the call returns its R.
getRotation(tf) ==
  IF ~tf.matrix_set
  THEN [tf EXCEPT !.R = toRotation(tf.q), !.matrix_set = TRUE]
  ELSE tf

\* setTransform(const Matrix3f& R_, const Vec3f& T_)
setTransformRT(tf, R_, T_) ==
  [tf EXCEPT !.matrix_set = TRUE, !.R = R_, !.T = T_,
             !.q = fromRotation(R_)]

\* setTransform(const Quaternion3f& q_, const Vec3f& T_)
setTransformQT(tf, q_, T_) ==
  [tf EXCEPT !.matrix_set = FALSE, !.q = q_, !.T = T_]

setRotation(tf, R_) ==
  [tf EXCEPT !.matrix_set = TRUE, !.R = R_, !.q = fromRotation(R_)]

setTranslation(tf, T_) == [tf EXCEPT !.T = T_]

\* setQuatRotation that leaves matrix_set as it was.
setQuatRotation_KeepsFlag(tf, q_) == [tf EXCEPT !.q = q_]

setQuatRotation(tf, q_) ==
  [tf EXCEPT !.matrix_set = FALSE, !.q = q_]

\* transform(v): rotate, then translate.
transform(tf, v) == VecAdd(QuatTransform(tf.q, v), tf.T)

\* inverse() that transforms -T by q before the conjugation.
inverse_OldRotation(tf) ==
  [tf EXCEPT !.matrix_set = FALSE, !.q = QuatConj(tf.q),
             !.T = QuatTransform(tf.q, VecNeg(tf.T))]

\* inverse(): q.conj(), then T = q.transform(-T) with the new q.
inverse(tf) ==
  LET qc == QuatConj(tf.q)
  IN  [tf EXCEPT !.matrix_set = FALSE, !.q = qc,
                 !.T = QuatTransform(qc, VecNeg(tf.T))]

\* inverseTimes that does not subtract T from other.T.
inverseTimes_NoOffset(tf, other) ==
  LET q_inv == QuatConj(tf.q)
  IN  CtorQT(QuatMul(q_inv, other.q), QuatTransform(q_inv, other.T))

inverseTimes(tf, other) ==
  LET q_inv == QuatConj(tf.q)
  IN  CtorQT(QuatMul(q_inv, other.q),
             QuatTransform(q_inv, VecSub(other.T, tf.T)))

\* operator*= that leaves matrix_set as it was.
OpMulAssign_KeepsFlag(tf, other) ==
  [tf EXCEPT !.T = VecAdd(QuatTransform(tf.q, other.T), tf.T),
             !.q = QuatMul(tf.q, other.q)]

\* operator*= that multiplies q before it computes T.
OpMulAssign_RotationFirst(tf, other) ==
  LET qn == QuatMul(tf.q, other.q)
  IN  [tf EXCEPT !.matrix_set = FALSE, !.q = qn,
                 !.T = VecAdd(QuatTransform(qn, other.T), tf.T)]

\* operator*=: T from the rotation before it is updated, then q *= other.q.
OpMulAssign(tf, other) ==
  [tf EXCEPT !.matrix_set = FALSE,
             !.T = VecAdd(QuatTransform(tf.q, other.T), tf.T),
             !.q = QuatMul(tf.q, other.q)]

\* operator*
OpMul(tf, other) ==
  CtorQT(QuatMul(tf.q, other.q),
         VecAdd(QuatTransform(tf.q, other.T), tf.T))

isIdentity(tf) == tf.q = QuatIdentity /\ tf.T = ZeroVec

----------------------------------------------------------------------------
(* math/geometry.h: relativeTransform.                                   *)

\* relativeTransform with R1 in place of its transpose.
relativeTransform_NoTranspose(R1, t1, R2, t2) ==
  [R |-> MatMul(R1, R2), t |-> MatVec(R1, VecSub(t2, t1))]

\* The outputs R and t of the matrix form.
relativeTransform(R1, t1, R2, t2) ==
  [R |-> MatMul(Transpose(R1), R2),
   t |-> MatVec(Transpose(R1), VecSub(t2, t1))]

\* An Eigen isometry: its linear() and translation() parts.
Isometry(R_, t_) == [linear |-> R_, translation |-> t_]

\* The overload on two isometries delegates to the matrix form.
relativeTransformIso(T1, T2) ==
  relativeTransform(T1.linear, T1.translation, T2.linear, T2.translation)

\* The six signed basis vectors.
Axes ==
  { a \in { <<x, y, z>> : x \in -1..1, y \in -1..1, z \in -1..1 } :
      a[1] * a[1] + a[2] * a[2] + a[3] * a[3] = 1 }

\* Every proper rotation matrix with integer entries (24 of them).
AllRots ==
  { M \in { << <<a[1], b[1], c[1]>>, <<a[2], b[2], c[2]>>,
               <<a[3], b[3], c[3]>> >> :
              a \in Axes, b \in Axes, c \in Axes } :
      /\ MatMul(M, Transpose(M)) = IdentityMatrix
      /\ Det(M) = 1 }

----------------------------------------------------------------------------
(* Exact rationals <<numerator, denominator>> in lowest terms, with      *)
(* <<1,0>>, <<-1,0>> and <<0,0>> for the IEEE +inf, -inf and NaN.        *)

RECURSIVE GCD(_, _)
GCD(a, b) == IF b = 0 THEN a ELSE GCD(b, a % b)

Sign(n) == IF n > 0 THEN 1 ELSE IF n < 0 THEN -1 ELSE 0

Rat(n, d) ==
  IF d = 0 THEN <<Sign(n), 0>>
  ELSE LET g == GCD(Abs(n), Abs(d))
       IN  <<(Sign(d) * n) \div g, Abs(d) \div g>>

RZero == <<0, 1>>

ROne == <<1, 1>>

IsFinite(a) == a[2] # 0

RNeg(a) == <<-a[1], a[2]>>

RAbs(a) == <<Abs(a[1]), a[2]>>

RMul(a, b) == Rat(a[1] * b[1], a[2] * b[2])

RAdd(a, b) ==
  IF a[2] = 0 /\ b[2] = 0
  THEN (IF a[1] = b[1] THEN a ELSE <<0, 0>>)
  ELSE Rat(a[1] * b[2] + b[1] * a[2], a[2] * b[2])

RSub(a, b) == RAdd(a, RNeg(b))

RDiv(a, b) == Rat(a[1] * b[2], a[2] * b[1])

\* a >= b, false when either is NaN.
RGeq(a, b) ==
  /\ a # <<0, 0>>
  /\ b # <<0, 0>>
  /\ IF a[2] = 0 /\ b[2] = 0 THEN a[1] >= b[1]
     ELSE IF a[2] = 0 THEN a[1] > 0
     ELSE IF b[2] = 0 THEN b[1] < 0
     ELSE a[1] * b[2] >= b[1] * a[2]

\* std::sqrt, exact when the argument is the square of a rational.
RSqrt(a) == IF a[1] < 0 THEN <<0, 0>> ELSE <<ISqrt(a[1]), ISqrt(a[2])>>

IsSquare(a) ==
  /\ a[1] >= 0
  /\ ISqrt(a[1]) * ISqrt(a[1]) = a[1]
  /\ ISqrt(a[2]) * ISqrt(a[2]) = a[2]

RDot(a, b) ==
  RAdd(RAdd(RMul(a[1], b[1]), RMul(a[2], b[2])), RMul(a[3], b[3]))

RCross(a, b) ==
  << RSub(RMul(a[2], b[3]), RMul(a[3], b[2])),
     RSub(RMul(a[3], b[1]), RMul(a[1], b[3])),
     RSub(RMul(a[1], b[2]), RMul(a[2], b[1])) >>

RZeroVec == <<RZero, RZero, RZero>>

----------------------------------------------------------------------------
(* math/geometry.h: generateCoordinateSystem, both variants.             *)

\* Largest denominator of the coordinates of the unit vectors tried.
MaxDen == 17

\* What the function takes the square root of, by its branch.
Radicand(w) ==
  IF RGeq(RAbs(w[1]), RAbs(w[2]))
  THEN RAdd(RMul(w[1], w[1]), RMul(w[3], w[3]))
  ELSE RAdd(RMul(w[2], w[2]), RMul(w[3], w[3]))

\* Unit vectors with rational coordinates for which that root is
\* rational, so that the function is computed exactly.
UnitVecs ==
  { x \in UNION { { <<Rat(p[1], n), Rat(p[2], n), Rat(p[3], n)>> :
                      p \in { <<a, b, c>> \in
                                (-n..n) \X (-n..n) \X (-n..n) :
                                a * a + b * b + c * c = n * n } } :
                  n \in 1..MaxDen } :
      IsSquare(Radicand(x)) }

\* generateCoordinateSystem(w, u, v) with v[2] = w[1] * u[0] in its
\* first branch.
generateCoordinateSystem_WrongSign(w) ==
  IF RGeq(RAbs(w[1]), RAbs(w[2]))
  THEN LET den        == RSqrt(RAdd(RMul(w[1], w[1]), RMul(w[3], w[3])))
           inv_length == RDiv(ROne, den)
           u1         == RMul(RNeg(w[3]), inv_length)
           u3         == RMul(w[1], inv_length)
       IN  [u |-> <<u1, RZero, u3>>,
            v |-> << RMul(w[2], u3),
                     RSub(RMul(w[3], u1), RMul(w[1], u3)),
                     RMul(w[2], u1) >>,
            divByZero |-> den = RZero]
  ELSE LET den        == RSqrt(RAdd(RMul(w[2], w[2]), RMul(w[3], w[3])))
           inv_length == RDiv(ROne, den)
           u2         == RMul(w[3], inv_length)
           u3         == RMul(RNeg(w[2]), inv_length)
       IN  [u |-> <<RZero, u2, u3>>,
            v |-> << RSub(RMul(w[2], u3), RMul(w[3], u2)),
                     RMul(RNeg(w[1]), u3),
                     RMul(w[1], u2) >>,
            divByZero |-> den = RZero]

\* generateCoordinateSystem(w, u, v): the outputs u and v, and whether
\* the division 1.0 / sqrt(...) had a zero divisor.
generateCoordinateSystem(w) ==
  IF RGeq(RAbs(w[1]), RAbs(w[2]))
  THEN LET den        == RSqrt(RAdd(RMul(w[1], w[1]), RMul(w[3], w[3])))
           inv_length == RDiv(ROne, den)
           u1         == RMul(RNeg(w[3]), inv_length)
           u3         == RMul(w[1], inv_length)
       IN  [u |-> <<u1, RZero, u3>>,
            v |-> << RMul(w[2], u3),
                     RSub(RMul(w[3], u1), RMul(w[1], u3)),
                     RMul(RNeg(w[2]), u1) >>,
            divByZero |-> den = RZero]
  ELSE LET den        == RSqrt(RAdd(RMul(w[2], w[2]), RMul(w[3], w[3])))
           inv_length == RDiv(ROne, den)
           u2         == RMul(w[3], inv_length)
           u3         == RMul(RNeg(w[2]), inv_length)
       IN  [u |-> <<RZero, u2, u3>>,
            v |-> << RSub(RMul(w[2], u3), RMul(w[3], u2)),
                     RMul(RNeg(w[1]), u3),
                     RMul(w[1], u2) >>,
            divByZero |-> den = RZero]

\* Column c of a matrix.
Col(M, c) == <<M[1][c], M[2][c], M[3][c]>>

\* The matrix with columns c1, c2, c3.
FromCols(c1, c2, c3) ==
  << <<c1[1], c2[1], c3[1]>>, <<c1[2], c2[2], c3[2]>>,
     <<c1[3], c2[3], c3[3]>> >>

RMax(a, b) == IF RGeq(a, b) THEN a ELSE b

\* Eigen's maxCoeff(): the largest coefficient, a value.
maxCoeff(x) == RMax(RMax(x[1], x[2]), x[3])

\* assert(axis.col(0).maxCoeff() == 2)
AxisAssertion(axis) == maxCoeff(Col(axis, 1)) = <<2, 1>>

\* The body of generateCoordinateSystem(Matrix3<T>& axis) after its
\* assertion: axis with columns 1 and 2 filled.
FillAxis(axis) ==
  IF RGeq(RAbs(axis[1][1]), RAbs(axis[2][1]))
  THEN LET inv_length ==
             RDiv(ROne, RSqrt(RAdd(RMul(axis[1][1], axis[1][1]),
                                   RMul(axis[3][1], axis[3][1]))))
           a01 == RMul(RNeg(axis[3][1]), inv_length)
           a21 == RMul(axis[1][1], inv_length)
       IN  FromCols(Col(axis, 1),
                    <<a01, RZero, a21>>,
                    << RMul(axis[2][1], a21),
                       RSub(RMul(axis[3][1], a01), RMul(axis[1][1], a21)),
                       RMul(RNeg(axis[2][1]), a01) >>)
  ELSE LET inv_length ==
             RDiv(ROne, RSqrt(RAdd(RMul(axis[2][1], axis[2][1]),
                                   RMul(axis[3][1], axis[3][1]))))
           a11 == RMul(axis[3][1], inv_length)
           a21 == RMul(RNeg(axis[2][1]), inv_length)
       IN  FromCols(Col(axis, 1),
                    <<RZero, a11, a21>>,
                    << RSub(RMul(axis[2][1], a21), RMul(axis[3][1], a11)),
                       RMul(RNeg(axis[1][1]), a21),
                       RMul(axis[1][1], a11) >>)

\* generateCoordinateSystem(Matrix3<T>& axis): with assertions compiled
\* in (ndebug false) a failed assertion aborts the call and leaves axis as
\* it was; with NDEBUG the assertion is not evaluated.
generateCoordinateSystemAxis(axis, ndebug) ==
  IF ~ndebug /\ ~AxisAssertion(axis)
  THEN [axis |-> axis, aborted |-> TRUE]
  ELSE [axis |-> FillAxis(axis), aborted |-> FALSE]

----------------------------------------------------------------------------
(* State.                                                                *)

VARIABLES
  tf,         \* the Transform3f instance: [matrix_set, R, T, q]
  op,         \* the member function called last
  ret,        \* what that call returned (NoRet for void)
  was_set,    \* matrix_set as that call found it
  arg_a,      \* the transform tf was copied from
  arg_b,      \* the transform passed as `other`
  rpc,        \* where the thread inside getRotation() stands
  wpc,        \* where the thread inside a mutator stands
  serialized, \* whether the callers serialize the calls on the instance
  R1, t1,     \* relativeTransform: frame 1
  R2, t2,     \* relativeTransform: frame 2
  R, t,       \* relativeTransform: the outputs
  rel_op,     \* the relativeTransform overload called
  w, u, v,    \* generateCoordinateSystem(w, u, v)
  axis,       \* generateCoordinateSystem(axis)
  gen_op,     \* the generateCoordinateSystem variant called
  ndebug,     \* whether the build defines NDEBUG
  divByZero   \* whether the call divided by zero

cacheVars == <<tf, op, ret, was_set>>

algVars == <<arg_a, arg_b>>

raceVars == <<rpc, wpc, serialized>>

relVars == <<R1, t1, R2, t2, R, t, rel_op>>

genVars == <<w, u, v, axis, gen_op, ndebug, divByZero>>

vars == <<cacheVars, algVars, raceVars, relVars, genVars>>

NoRet == <<>>

\* The transforms passed as `other`: only their q and T are read.
Others == { CtorQT(q_, T_) : q_ \in QuatArgs, T_ \in VecArgs }

----------------------------------------------------------------------------
(* One Transform3f instance under its constructors and mutators.         *)

Called(name, after, result) ==
  /\ tf' = after
  /\ op' = name
  /\ ret' = result
  /\ was_set' = tf.matrix_set
  /\ UNCHANGED <<algVars, raceVars, relVars, genVars>>

Construct ==
  \/ Called("Transform3f()", CtorDefault, NoRet)
  \/ \E R_ \in Rots, T_ \in VecArgs :
       Called("Transform3f(R,T)", CtorRT(R_, T_), NoRet)
  \/ \E q_ \in QuatArgs, T_ \in VecArgs :
       Called("Transform3f(q,T)", CtorQT(q_, T_), NoRet)
  \/ \E R_ \in Rots : Called("Transform3f(R)", CtorR(R_), NoRet)
  \/ \E q_ \in QuatArgs : Called("Transform3f(q)", CtorQ(q_), NoRet)
  \/ \E T_ \in VecArgs : Called("Transform3f(T)", CtorT(T_), NoRet)

GetRotation ==
  Called("getRotation", getRotation(tf), getRotation(tf).R)

SetTransformRT ==
  \E R_ \in Rots, T_ \in VecArgs :
    Called("setTransform(R,T)", setTransformRT(tf, R_, T_), NoRet)

SetTransformQT ==
  \E q_ \in QuatArgs, T_ \in VecArgs :
    Called("setTransform(q,T)", setTransformQT(tf, q_, T_), NoRet)

SetRotation ==
  \E R_ \in Rots : Called("setRotation", setRotation(tf, R_), NoRet)

SetTranslation ==
  \E T_ \in VecArgs : Called("setTranslation", setTranslation(tf, T_), NoRet)

SetQuatRotation ==
  \E q_ \in QuatArgs :
    Called("setQuatRotation", setQuatRotation(tf, q_), NoRet)

Inverse == Called("inverse", inverse(tf), NoRet)

\* The translation is kept within the model's vectors.
MulAssign ==
  \E other \in Others :
    /\ OpMulAssign(tf, other).T \in Vecs
    /\ Called("operator*=", OpMulAssign(tf, other), NoRet)

SetIdentity == Called("setIdentity", setIdentity(tf), NoRet)

\* The variables of the transform when a specification leaves them idle.
CacheIdle ==
  /\ tf = CtorDefault
  /\ op = "Transform3f()"
  /\ ret = NoRet
  /\ was_set = FALSE

AlgIdle ==
  /\ arg_a = CtorDefault
  /\ arg_b = CtorDefault

RaceIdle ==
  /\ rpc = "idle"
  /\ wpc = "idle"
  /\ serialized = TRUE

RelIdle ==
  /\ R1 = IdentityMatrix
  /\ t1 = ZeroVec
  /\ R2 = IdentityMatrix
  /\ t2 = ZeroVec
  /\ R = DefaultMatrix
  /\ t = ZeroVec
  /\ rel_op = "none"

GenIdle ==
  /\ w = <<RZero, RZero, ROne>>
  /\ u = RZeroVec
  /\ v = RZeroVec
  /\ axis = FromCols(w, RZeroVec, RZeroVec)
  /\ gen_op = "none"
  /\ ndebug = TRUE
  /\ divByZero = FALSE

Init ==
  /\ CacheIdle
  /\ AlgIdle
  /\ RaceIdle
  /\ RelIdle
  /\ GenIdle

Next ==
  \/ Construct
  \/ GetRotation
  \/ SetTransformRT
  \/ SetTransformQT
  \/ SetRotation
  \/ SetTranslation
  \/ SetQuatRotation
  \/ Inverse
  \/ MulAssign
  \/ SetIdentity

Spec == Init /\ [][Next]_vars

----------------------------------------------------------------------------
(* The algebra of Transform3f: a transform arg_a, a copy tf of it that   *)
(* the in-place operations work on, and a second transform arg_b.        *)

AlgInputs ==
  { CtorQT(q_, T_) : q_ \in Quats, T_ \in Vecs }
    \cup { CtorRT(R_, T_) : R_ \in Rots, T_ \in Vecs }

AlgOthers == { CtorQT(q_, T_) : q_ \in Quats, T_ \in VecArgs }

AlgInit ==
  /\ arg_a \in AlgInputs
  /\ arg_b \in AlgOthers
  /\ tf = arg_a
  /\ op = "copy"
  /\ ret = NoRet
  /\ was_set = arg_a.matrix_set
  /\ RaceIdle
  /\ RelIdle
  /\ GenIdle

AlgCalled(name, after, result) ==
  /\ tf' = after
  /\ op' = name
  /\ ret' = result
  /\ was_set' = tf.matrix_set
  /\ UNCHANGED <<algVars, raceVars, relVars, genVars>>

\* tf * arg_b
AlgMul ==
  /\ op = "copy"
  /\ AlgCalled("operator*", tf, OpMul(tf, arg_b))

\* tf *= arg_b
AlgMulAssign ==
  /\ op = "copy"
  /\ AlgCalled("operator*=", OpMulAssign(tf, arg_b), NoRet)

\* tf.inverseTimes(arg_b)
AlgInverseTimes ==
  /\ op = "copy"
  /\ AlgCalled("inverseTimes", tf, inverseTimes(tf, arg_b))

\* tf.inverse()
AlgInverse ==
  /\ op = "copy"
  /\ AlgCalled("inverse", inverse(tf), NoRet)

\* arg_a * tf, with tf the inverted copy
AlgTimesInverse ==
  /\ op = "inverse"
  /\ AlgCalled("a*inverse", tf, OpMul(arg_a, tf))

\* tf * arg_a, with tf the inverted copy
AlgInverseTimesSelf ==
  /\ op = "inverse"
  /\ AlgCalled("inverse*a", tf, OpMul(tf, arg_a))

AlgNext ==
  \/ AlgMul
  \/ AlgMulAssign
  \/ AlgInverseTimes
  \/ AlgInverse
  \/ AlgTimesInverse
  \/ AlgInverseTimesSelf

SpecAlg == AlgInit /\ [][AlgNext]_vars

----------------------------------------------------------------------------
(* One Transform3f instance shared by a thread that calls getRotation()  *)
(* and a thread that calls the quaternion-changing mutators, one         *)
(* statement at a time.  Nothing in the class synchronises the two;      *)
(* when the callers serialize the calls, a call starts only while no     *)
(* other call is in progress.  An assignment is taken as one step: the   *)
(* interleavings of whole statements are among the outcomes of the race. *)

\* A mutator that does not touch matrix_set.
Invalidate_Skipped(x) == x

\* matrix_set = false, the first statement of every such mutator.
Invalidate(x) == [x EXCEPT !.matrix_set = FALSE]

Mutators == {"setQuatRotation", "setTransform(q,T)", "operator*=", "inverse"}

MayStart(otherPc) == serialized => otherPc = "idle"

RaceStep(after, rp, wp) ==
  /\ tf' = after
  /\ rpc' = rp
  /\ wpc' = wp
  /\ UNCHANGED <<serialized, algVars, relVars, genVars>>

Returned(name, result, found) ==
  /\ op' = name
  /\ ret' = result
  /\ was_set' = found

\* if(!matrix_set): the flag is read; when set, the call returns R.
ReadCheck ==
  /\ rpc = "idle"
  /\ MayStart(wpc)
  /\ IF tf.matrix_set
     THEN /\ RaceStep(tf, "idle", wpc)
          /\ Returned("getRotation", tf.R, TRUE)
     ELSE /\ RaceStep(tf, "convert", wpc)
          /\ UNCHANGED <<op, ret, was_set>>

\* q.toRotation(R)
ReadConvert ==
  /\ rpc = "convert"
  /\ RaceStep([tf EXCEPT !.R = toRotation(tf.q)], "set", wpc)
  /\ UNCHANGED <<op, ret, was_set>>

\* matrix_set = true; return R
ReadSet ==
  /\ rpc = "set"
  /\ RaceStep([tf EXCEPT !.matrix_set = TRUE], "idle", wpc)
  /\ Returned("getRotation", tf.R, FALSE)

\* A mutator is entered: matrix_set = false.
WriteStart ==
  /\ wpc = "idle"
  /\ MayStart(rpc)
  /\ \E call \in Mutators :
       /\ RaceStep(Invalidate(tf), rpc, call)
       /\ was_set' = tf.matrix_set
       /\ UNCHANGED <<op, ret>>

\* setQuatRotation: q = q_
WriteSetQuat ==
  /\ wpc = "setQuatRotation"
  /\ \E q_ \in QuatArgs : RaceStep([tf EXCEPT !.q = q_], rpc, "idle")
  /\ Returned("setQuatRotation", NoRet, was_set)

\* setTransform(q_, T_): q = q_
WriteSetTransformQ ==
  /\ wpc = "setTransform(q,T)"
  /\ \E q_ \in QuatArgs :
       RaceStep([tf EXCEPT !.q = q_], rpc, "setTransform(q,T):T")
  /\ UNCHANGED <<op, ret, was_set>>

\* setTransform(q_, T_): T = T_
WriteSetTransformT ==
  /\ wpc = "setTransform(q,T):T"
  /\ \E T_ \in VecArgs : RaceStep([tf EXCEPT !.T = T_], rpc, "idle")
  /\ Returned("setTransform(q,T)", NoRet, was_set)

\* inverse(): q.conj()
WriteInverseQ ==
  /\ wpc = "inverse"
  /\ RaceStep([tf EXCEPT !.q = QuatConj(tf.q)], rpc, "inverse:T")
  /\ UNCHANGED <<op, ret, was_set>>

\* inverse(): T = q.transform(-T)
WriteInverseT ==
  /\ wpc = "inverse:T"
  /\ RaceStep([tf EXCEPT !.T = QuatTransform(tf.q, VecNeg(tf.T))],
              rpc, "idle")
  /\ Returned("inverse", NoRet, was_set)

\* operator*=: T = q.transform(other.T) + T, kept within the model's
\* vectors.
WriteMulT ==
  /\ wpc = "operator*="
  /\ \E T_ \in VecArgs :
       /\ VecAdd(QuatTransform(tf.q, T_), tf.T) \in Vecs
       /\ RaceStep([tf EXCEPT !.T = VecAdd(QuatTransform(tf.q, T_), tf.T)],
                   rpc, "operator*=:q")
  /\ UNCHANGED <<op, ret, was_set>>

\* operator*=: q *= other.q
WriteMulQ ==
  /\ wpc = "operator*=:q"
  /\ \E q_ \in QuatArgs :
       RaceStep([tf EXCEPT !.q = QuatMul(tf.q, q_)], rpc, "idle")
  /\ Returned("operator*=", NoRet, was_set)

RaceInit ==
  /\ CacheIdle
  /\ AlgIdle
  /\ rpc = "idle"
  /\ wpc = "idle"
  /\ serialized \in BOOLEAN
  /\ RelIdle
  /\ GenIdle

RaceNext ==
  \/ ReadCheck
  \/ ReadConvert
  \/ ReadSet
  \/ WriteStart
  \/ WriteSetQuat
  \/ WriteSetTransformQ
  \/ WriteSetTransformT
  \/ WriteInverseQ
  \/ WriteInverseT
  \/ WriteMulT
  \/ WriteMulQ

SpecRace == RaceInit /\ [][RaceNext]_vars

----------------------------------------------------------------------------
(* relativeTransform on two frames, through either overload.             *)

RelInit ==
  /\ CacheIdle
  /\ AlgIdle
  /\ RaceIdle
  /\ R1 \in AllRots
  /\ t1 \in Vecs
  /\ R2 \in AllRots
  /\ t2 \in Vecs
  /\ R = DefaultMatrix
  /\ t = ZeroVec
  /\ rel_op = "start"
  /\ GenIdle

RelCalled(name, out) ==
  /\ rel_op = "start"
  /\ R' = out.R
  /\ t' = out.t
  /\ rel_op' = name
  /\ UNCHANGED <<R1, t1, R2, t2, cacheVars, algVars, raceVars, genVars>>

RelMatrix == RelCalled("matrix", relativeTransform(R1, t1, R2, t2))

RelIsometry ==
  RelCalled("isometry",
            relativeTransformIso(Isometry(R1, t1), Isometry(R2, t2)))

RelNext ==
  \/ RelMatrix
  \/ RelIsometry

SpecRel == RelInit /\ [][RelNext]_vars

----------------------------------------------------------------------------
(* generateCoordinateSystem on a unit vector, in both its variants, in   *)
(* a build with or without NDEBUG.                                       *)

GenInit ==
  /\ CacheIdle
  /\ AlgIdle
  /\ RaceIdle
  /\ RelIdle
  /\ w \in UnitVecs
  /\ u = RZeroVec
  /\ v = RZeroVec
  /\ axis = FromCols(w, RZeroVec, RZeroVec)
  /\ gen_op = "start"
  /\ ndebug \in BOOLEAN
  /\ divByZero = FALSE

GenVector ==
  /\ gen_op = "start"
  /\ u' = generateCoordinateSystem(w).u
  /\ v' = generateCoordinateSystem(w).v
  /\ divByZero' = generateCoordinateSystem(w).divByZero
  /\ gen_op' = "vector"
  /\ UNCHANGED <<w, axis, ndebug, cacheVars, algVars, raceVars, relVars>>

GenMatrix ==
  /\ gen_op = "start"
  /\ axis' = generateCoordinateSystemAxis(axis, ndebug).axis
  /\ gen_op' = IF generateCoordinateSystemAxis(axis, ndebug).aborted
               THEN "abort"
               ELSE "matrix"
  /\ UNCHANGED <<w, u, v, ndebug, divByZero,
                 cacheVars, algVars, raceVars, relVars>>

GenNext ==
  \/ GenVector
  \/ GenMatrix

SpecGen == GenInit /\ [][GenNext]_vars

----------------------------------------------------------------------------
(* Properties of the cache (checked under Spec).                         *)

\* C1: in every state reachable through the constructors, the setters,
\* operator*=, inverse() and getRotation(), whenever matrix_set is true
\* the cached matrix R is the matrix obtained by converting q.
C1_CacheInvariant == tf.matrix_set => tf.R = toRotation(tf.q)

\* setRotation was given a rotation by 120 degrees (trace 0) and the
\* quaternion derived from it converts back to that matrix.
C1_Witness ==
  /\ op = "setRotation"
  /\ tf.matrix_set
  /\ tf.R[1][1] + tf.R[2][2] + tf.R[3][3] = 0
  /\ tf.R = toRotation(tf.q)

\* C2: getRotation() on a stale cache returns toRotation(q) and leaves
\* matrix_set true; a further getRotation() with no mutator in between
\* returns the same matrix and changes nothing; no getRotation() changes
\* q or T.
C2_LazyRead ==
  [][ op' = "getRotation" =>
        /\ tf'.matrix_set
        /\ ret' = tf'.R
        /\ (~tf.matrix_set => ret' = toRotation(tf.q))
        /\ tf'.q = tf.q
        /\ tf'.T = tf.T
        /\ (op = "getRotation" => ret' = ret /\ tf' = tf) ]_vars

\* getRotation() found the cache stale and returned a matrix other than
\* the identity.
C2_Witness ==
  /\ op = "getRotation"
  /\ ~was_set
  /\ tf.matrix_set
  /\ ret = toRotation(tf.q)
  /\ ret # IdentityMatrix

MatrixSetters ==
  { "Transform3f(R,T)", "Transform3f(R)", "setTransform(R,T)",
    "setRotation", "setIdentity" }

QuatSetters ==
  { "Transform3f(q,T)", "Transform3f(q)", "setTransform(q,T)",
    "setQuatRotation", "operator*=", "inverse" }

\* C3: from either cache state, an operation that sets the rotation from
\* a matrix, and setIdentity, ends with matrix_set true and q derived from
\* that matrix; an operation that sets the rotation from a quaternion,
\* operator*= and inverse() end with matrix_set false.
C3_CacheTransitions ==
  /\ op \in MatrixSetters => tf.matrix_set /\ tf.q = fromRotation(tf.R)
  /\ op \in QuatSetters => ~tf.matrix_set

\* operator*= found the cache valid and left it stale.
C3_Witness ==
  /\ op = "operator*="
  /\ was_set
  /\ ~tf.matrix_set
  /\ tf.q # QuatIdentity

----------------------------------------------------------------------------
(* Properties of the algebra (checked under SpecAlg).                    *)

\* C4: the composed transform applied to a point equals applying arg_b
\* and then arg_a, for the transform operator* returns and for the state
\* operator*= leaves.
C4_Composition ==
  /\ op = "operator*" =>
       \A x \in Points :
         transform(ret, x) = transform(arg_a, transform(arg_b, x))
  /\ op = "operator*=" =>
       \A x \in Points :
         transform(tf, x) = transform(arg_a, transform(arg_b, x))

\* operator*= composed two transforms whose rotations do not commute and
\* whose translations are not zero.
C4_Witness ==
  /\ op = "operator*="
  /\ QuatMul(arg_a.q, arg_b.q) # QuatMul(arg_b.q, arg_a.q)
  /\ toRotation(QuatMul(arg_a.q, arg_b.q))
       # toRotation(QuatMul(arg_b.q, arg_a.q))
  /\ arg_a.T # ZeroVec
  /\ arg_b.T # ZeroVec
  /\ QuatTransform(arg_b.q, arg_b.T) # arg_b.T
  /\ tf.T = VecAdd(QuatTransform(arg_a.q, arg_b.T), arg_a.T)

\* C5: inverse() sets the rotation to conj(q) and the translation to the
\* new rotation applied to -T, and both products of a transform with its
\* inverse are the identity transform.
C5_Inverse ==
  /\ op = "inverse" =>
       /\ tf.q = QuatConj(arg_a.q)
       /\ tf.T = QuatTransform(tf.q, VecNeg(arg_a.T))
  /\ op \in {"a*inverse", "inverse*a"} =>
       /\ isIdentity(ret)
       /\ toRotation(ret.q) = IdentityMatrix
       /\ \A x \in Points : transform(ret, x) = x

\* The product of a transform with its inverse was taken for a transform
\* whose rotation moves its own non-zero translation.
C5_Witness ==
  /\ op = "a*inverse"
  /\ arg_a.T # ZeroVec
  /\ arg_a.q # QuatIdentity
  /\ QuatTransform(arg_a.q, arg_a.T) # arg_a.T
  /\ tf.T # VecNeg(arg_a.T)
  /\ isIdentity(ret)

\* C6: a.inverseTimes(b) has the rotation and translation of
\* (copy of a).inverse() * b, and leaves a (q, T, matrix_set, R) as it was.
C6_InverseTimes ==
  op = "inverseTimes" =>
    /\ ret.q = OpMul(inverse(arg_a), arg_b).q
    /\ ret.T = OpMul(inverse(arg_a), arg_b).T
    /\ tf = arg_a

\* inverseTimes was called on a transform with a valid cache and a
\* non-zero translation.
C6_Witness ==
  /\ op = "inverseTimes"
  /\ tf.matrix_set
  /\ tf.T # ZeroVec
  /\ arg_b.T # ZeroVec
  /\ arg_b.T # tf.T
  /\ tf.q # QuatIdentity
  /\ ret.T # VecSub(arg_b.T, tf.T)

----------------------------------------------------------------------------
(* The cache under two threads (checked under SpecRace).                 *)

\* C10: when the calls on the instance are serialized, no state has
\* matrix_set true with R different from toRotation(q); when getRotation()
\* interleaves with a quaternion-changing mutator such a state is reached
\* (C10_Witness) and later reads return the stale matrix.
C10_SerializedCacheConsistent ==
  serialized => (tf.matrix_set => tf.R = toRotation(tf.q))

\* Without serialization: both calls are over, matrix_set is true, R is
\* not the matrix of q, and a later getRotation() found the flag set and
\* returned that stale R.
C10_Witness ==
  /\ ~serialized
  /\ rpc = "idle"
  /\ wpc = "idle"
  /\ tf.matrix_set
  /\ tf.R # toRotation(tf.q)
  /\ op = "getRotation"
  /\ was_set
  /\ ret = tf.R

----------------------------------------------------------------------------
(* relativeTransform (checked under SpecRel).                            *)

\* C7: both overloads of relativeTransform output R = transpose(R1)*R2 and
\* t = transpose(R1)*(t2 - t1), and composing frame 1 with that result
\* gives frame 2 back: R1*R = R2 and R1*t + t1 = t2.
C7_RelativeTransform ==
  rel_op \in {"matrix", "isometry"} =>
    /\ R = MatMul(Transpose(R1), R2)
    /\ t = MatVec(Transpose(R1), VecSub(t2, t1))
    /\ MatMul(R1, R) = R2
    /\ VecAdd(MatVec(R1, t), t1) = t2

\* The overload on isometries has run on two different frames whose
\* first rotation is not its own transpose.
C7_Witness ==
  /\ rel_op = "isometry"
  /\ R1 # Transpose(R1)
  /\ R2 # R1
  /\ R2 # IdentityMatrix
  /\ t1 # ZeroVec
  /\ t2 # t1
  /\ t # ZeroVec

----------------------------------------------------------------------------
(* generateCoordinateSystem (checked under SpecGen).                     *)

\* The z-component of x is its largest-magnitude coefficient.
ZLargest(x) ==
  /\ RGeq(RAbs(x[3]), RAbs(x[1]))
  /\ RGeq(RAbs(x[3]), RAbs(x[2]))

\* C8: for an axis whose first column is a unit vector with its
\* z-component largest in magnitude, generateCoordinateSystem(axis)
\* completes without an assertion failure and leaves column 1 orthogonal
\* to column 0 and column 2 equal to column 0 cross column 1.
C8_AxisCompletes ==
  (gen_op \in {"matrix", "abort"} /\ ZLargest(Col(axis, 1))) =>
    /\ gen_op = "matrix"
    /\ RDot(Col(axis, 2), Col(axis, 1)) = RZero
    /\ Col(axis, 3) = RCross(Col(axis, 1), Col(axis, 2))

\* C9: for a unit vector w, generateCoordinateSystem(w, u, v) divides by
\* a non-zero number and gives unit vectors u and v, orthogonal to w and
\* to each other, with u x v = w.
C9_OrthonormalFrame ==
  gen_op = "vector" =>
    /\ ~divByZero
    /\ RDot(u, u) = ROne
    /\ RDot(v, v) = ROne
    /\ RDot(u, w) = RZero
    /\ RDot(v, w) = RZero
    /\ RDot(u, v) = RZero
    /\ RCross(u, v) = w

\* The vector variant has run in its second branch (|w[0]| < |w[1]|) on
\* a unit vector with no zero coordinate.
C9_Witness ==
  /\ gen_op = "vector"
  /\ ~RGeq(RAbs(w[1]), RAbs(w[2]))
  /\ w[1] # RZero
  /\ w[3] # RZero
  /\ RDot(w, w) = ROne
  /\ RCross(u, v) = w

=============================================================================
